---- MODULE Spec2Model ----
(***************************************************************************)
(* Szlaban: a key server with a request/approval workflow (src/main.go).   *)
(*                                                                         *)
(* The state is the process-wide map pendingRequests guarded by the mutex  *)
(* mu, the configuration read from the environment, the clock, and the     *)
(* position of every goroutine: up to NumTasks HTTP handler goroutines in  *)
(* flight and the cleanup goroutine started by setupRouter.                *)
(*                                                                         *)
(* A handler runs in three steps: the prelude (authorization middleware,   *)
(* body binding, id validation, id generation), which touches no shared    *)
(* state; mu.Lock(); and the critical section up to the unlock, which      *)
(* reads the clock once.  Handler goroutines carry no identity: the ones    *)
(* blocked in mu.Lock() form the bag `waiting`, the ones inside a critical *)
(* section the bag `inside`.  Strings are sequences of characters; a       *)
(* request id string is a pair <<form, n>> of its textual form and the     *)
(* 128-bit value it encodes.  The clock counts seconds.                    *)
(***************************************************************************)
EXTENDS Integers, Sequences, FiniteSets, Bags, TLC

\* ------------------------------------------------------------------ bounds
NumTasks == 2      \* handler goroutines that can be in flight together
NumUUIDs == 2      \* distinct values the id generator can draw
MaxTime == 2       \* the clock runs over 0..MaxTime

\* ------------------------------------------------------------ configuration
Bearer == <<"B", " ">>

adminSecretKey == <<"a", "d", "m">>

serverSecretKey == <<"s", "r", "v">>

\* Values of APPROVAL_TIMEOUT that time.ParseDuration accepts, and values it
\* rejects (empty: the variable is unset; a number without a unit).
ParseableTimeouts == {<<"1", "s">>}

MalformedTimeouts == {<<>>, <<"1">>}

VARIABLES
    approvalTimeout,   \* the APPROVAL_TIMEOUT string, read once at start-up
    pendingRequests,   \* map: request id string -> Request
    mu,                \* the mutex: "locked" or "unlocked"
    now,               \* the clock
    waiting,           \* bag of the calls whose handler is blocked in mu.Lock()
    inside,            \* bag of the calls whose handler is past mu.Lock()
    sweeperPc,         \* position of the cleanup goroutine
    issued,            \* id values uuid.New() has returned so far
    crashed,           \* the process died of an unrecovered panic
    removed,           \* history: the ids whose entry was deleted from the map
    last               \* what the step that led here answered, or Nothing

vars == <<approvalTimeout, pendingRequests, mu, now, waiting, inside, sweeperPc,
          issued, crashed, removed, last>>

\* ------------------------------------------------------------------ strings
Digits == {"0", "1", "2", "3", "4", "5", "6", "7", "8", "9"}

DigitVal(c) ==
    CASE c = "0" -> 0 [] c = "1" -> 1 [] c = "2" -> 2 [] c = "3" -> 3
      [] c = "4" -> 4 [] c = "5" -> 5 [] c = "6" -> 6 [] c = "7" -> 7
      [] c = "8" -> 8 [] OTHER -> 9

RECURSIVE DecimalVal(_)
DecimalVal(s) ==
    IF s = <<>> THEN 0
    ELSE 10 * DecimalVal(SubSeq(s, 1, Len(s) - 1)) + DigitVal(s[Len(s)])

\* time.ParseDuration on the strings of the model: decimal digits followed
\* by the unit "s".  A string with no digits or no unit is an error.
ParseDuration(s) ==
    IF /\ Len(s) >= 2
       /\ s[Len(s)] = "s"
       /\ \A i \in 1..(Len(s) - 1) : s[i] \in Digits
    THEN [err |-> FALSE, d |-> DecimalVal(SubSeq(s, 1, Len(s) - 1))]
    ELSE [err |-> TRUE, d |-> 0]

\* subtle.ConstantTimeCompare: 1 iff the two byte strings are equal.
ConstantTimeCompare(x, y) ==
    IF Len(x) # Len(y) THEN 0
    ELSE IF \A i \in 1..Len(x) : x[i] = y[i] THEN 1 ELSE 0

\* The bytes subtle.ConstantTimeCompare combines before it returns: it
\* returns at once when the lengths differ, and passes over every byte
\* otherwise.
ConstantTimeCompareWork(x, y) == IF Len(x) # Len(y) THEN 0 ELSE Len(x)

\* -------------------------------------------------------------- request ids
Canonical(n) == <<"canonical", n>>

\* The strings a caller sends as a request id: the canonical text of a
\* value, and a text uuid.Parse rejects ("invalid-uuid").  The map is keyed
\* by the text.
ReqIDs == {Canonical(n) : n \in 1..NumUUIDs} \cup {<<"invalid", 0>>}

NoID == <<"none", 0>>

\* Faulty variant of uuidParseErr: the id is not validated.
uuidParseErr_Never(s) == FALSE

\* uuid.Parse(s) returns an error
uuidParseErr(s) == s[1] # "canonical"

\* Faulty variant of NewUUIDs: the generator may repeat a value.
NewUUIDs_Reuse == {<<"canonical", n>> : n \in 1..NumUUIDs}

\* uuid.New().String(): a value drawn from 122 random bits, in canonical
\* text.  The draw never repeats a value drawn before.
NewUUIDs == {Canonical(n) : n \in (1..NumUUIDs) \ issued}

\* ------------------------------------------------------------------ inputs
AuthHeaders ==
    {<<>>,                           \* no Authorization header
     Bearer \o adminSecretKey,
     Bearer \o serverSecretKey,
     adminSecretKey}                 \* a key without the "Bearer " prefix

ServerIDs == {"server123"}

ClientIPs == {"10.0.0.1"}

\* ----------------------------------------------------------------- records
\* Faulty variant of Request: the entry starts Approved.
Request_Approved(serverID, createdAt, ip) ==
    [ServerID |-> serverID, Approved |-> TRUE, CreatedAt |-> createdAt, IP |-> ip]

Request(serverID, createdAt, ip) ==
    [ServerID |-> serverID, Approved |-> FALSE, CreatedAt |-> createdAt, IP |-> ip]

\* A call past its prelude.  Two fields are history: atLive, whether an
\* approve or deny was made while its id had an entry whose age did not
\* exceed the timeout, and rival, the answer a call with the opposite
\* decision on the same id got while this one was in flight.
Call(op, reqID, serverID, ip, auth) ==
    [op |-> op, reqID |-> reqID, ServerID |-> serverID, IP |-> ip, auth |-> auth,
     atLive |-> /\ op \in {"approve", "deny"}
                /\ reqID \in DOMAIN pendingRequests
                /\ ~ParseDuration(approvalTimeout).err
                /\ now - pendingRequests[reqID].CreatedAt
                       <= ParseDuration(approvalTimeout).d,
     rival |-> "none"]

\* An answer, with the call it answers: its route, id and Authorization header
Answer(op, reqID, auth, code) ==
    [op |-> op, reqID |-> reqID, auth |-> auth, code |-> code]

Nothing == Answer("none", NoID, <<>>, "none")

\* --------------------------------------------------------------------- bags
One(c) == SetToBag({c})

RECURSIVE Copies(_, _)
Copies(B, S) ==
    IF S = {} THEN 0
    ELSE LET e == CHOOSE x \in S : TRUE IN B[e] + Copies(B, S \ {e})

\* The bag B once call c has got the answer `code`: if c was made on a live,
\* unexpired id, every call in B that decides the other way on that id is
\* marked with the answer.
Marked(B, c, code) ==
    LET mark(e) == IF /\ c.atLive
                      /\ e.reqID = c.reqID
                      /\ {e.op, c.op} = {"approve", "deny"}
                   THEN [e EXCEPT !.rival = code] ELSE e
    IN  [x \in {mark(e) : e \in DOMAIN B} |->
            Copies(B, {e \in DOMAIN B : mark(e) = x})]

InFlight == BagCardinality(waiting) + BagCardinality(inside)

\* ------------------------------------------------------------------ the map
Exists(id) == id \in DOMAIN pendingRequests

\* Faulty variant of Delete: the map is emptied.
Delete_All(m, id) == <<>>

Delete(m, id) == [k \in DOMAIN m \ {id} |-> m[k]]

\* Faulty variant of Store: the map is replaced by one holding the new entry.
Store_Fresh(m, id, req) == [k \in {id} |-> req]

Store(m, id, req) == [k \in DOMAIN m \cup {id} |-> IF k = id THEN req ELSE m[k]]

\* time.Since(req.CreatedAt)
Since(createdAt) == now - createdAt

\* Faulty variant of isRequestExpired: the age is never compared.
isRequestExpired_NeverExpires(req) ==
    IF ParseDuration(approvalTimeout).err THEN "panic" ELSE "false"

\* Faulty variant of isRequestExpired: an age equal to the timeout expires.
isRequestExpired_Inclusive(req) ==
    LET parsed == ParseDuration(approvalTimeout) IN
    IF parsed.err THEN "panic"
    ELSE IF Since(req.CreatedAt) >= parsed.d THEN "true" ELSE "false"

\* isRequestExpired: "panic" when the configured timeout does not parse
isRequestExpired(req) ==
    LET parsed == ParseDuration(approvalTimeout) IN
    IF parsed.err THEN "panic"
    ELSE IF Since(req.CreatedAt) > parsed.d THEN "true" ELSE "false"

\* ------------------------------------------------- authorization middleware
\* Faulty variant of requireAdminSecretKey: only the scheme is compared.
requireAdminSecretKey_SchemeOnly(authHeader) ==
    /\ Len(authHeader) >= Len(Bearer)
    /\ ConstantTimeCompare(SubSeq(authHeader, 1, Len(Bearer)), Bearer) = 1

\* Faulty variant of requireAdminSecretKey: the key of either role passes.
requireAdminSecretKey_AnyRole(authHeader) ==
    /\ authHeader # <<>>
    /\ \/ ConstantTimeCompare(authHeader, Bearer \o adminSecretKey) = 1
       \/ ConstantTimeCompare(authHeader, Bearer \o serverSecretKey) = 1

\* requireAdminSecretKey: TRUE iff the middleware calls c.Next()
requireAdminSecretKey(authHeader) ==
    /\ authHeader # <<>>
    /\ ConstantTimeCompare(authHeader, Bearer \o adminSecretKey) = 1

\* requireServerSecretKey: TRUE iff the middleware calls c.Next()
requireServerSecretKey(authHeader) ==
    /\ authHeader # <<>>
    /\ ConstantTimeCompare(authHeader, Bearer \o serverSecretKey) = 1

\* The bytes a gate compares for a header, key being the key of its route
requireSecretKeyWork(authHeader, key) ==
    IF authHeader = <<>> THEN 0
    ELSE ConstantTimeCompareWork(authHeader, Bearer \o key)

\* ------------------------------------------------------------------- steps
Running == ~crashed

\* A handler answers without having taken the lock.
Reject(answer) ==
    /\ last' = answer
    /\ UNCHANGED <<approvalTimeout, pendingRequests, mu, now, waiting, inside,
                   sweeperPc, issued, crashed, removed>>

\* A handler passed its prelude and now blocks in mu.Lock().
Admit(c) ==
    /\ waiting' = waiting (+) One(c)
    /\ last' = Nothing
    /\ UNCHANGED <<approvalTimeout, pendingRequests, mu, now, inside, sweeperPc,
                   issued, crashed, removed>>

\* The handler of call c leaves its critical section with the answer `code`
\* and mu.Unlock() runs (deferred, or explicit in handleServerRequestKey).
Finish(c, code) ==
    /\ mu' = "unlocked"
    /\ inside' = inside (-) One(c)
    /\ waiting' = Marked(waiting, c, code)
    /\ last' = Answer(c.op, c.reqID, c.auth, code)

\* The paths of a critical section that the three id-taking handlers share:
\* the entry is missing; the timeout does not parse (the panic unwinds
\* through the deferred unlock and gin.Recovery answers 500); the entry has
\* expired and is deleted.
\* Faulty variant of NotFoundPath: a missing entry is answered as expired.
NotFoundPath_Gone(c) ==
    /\ ~Exists(c.reqID)
    /\ Finish(c, "Expired")
    /\ UNCHANGED <<pendingRequests, removed>>

NotFoundPath(c) ==
    /\ ~Exists(c.reqID)
    /\ Finish(c, "NotFound")
    /\ UNCHANGED <<pendingRequests, removed>>

PanicPath(c) ==
    /\ Exists(c.reqID)
    /\ isRequestExpired(pendingRequests[c.reqID]) = "panic"
    /\ Finish(c, "InternalError")
    /\ UNCHANGED <<pendingRequests, removed>>

\* Faulty variant of ExpiredPath: answers Expired without the delete.
ExpiredPath_KeepsEntry(c) ==
    /\ Exists(c.reqID)
    /\ isRequestExpired(pendingRequests[c.reqID]) = "true"
    /\ Finish(c, "Expired")
    /\ UNCHANGED <<pendingRequests, removed>>

ExpiredPath(c) ==
    /\ Exists(c.reqID)
    /\ isRequestExpired(pendingRequests[c.reqID]) = "true"
    /\ pendingRequests' = Delete(pendingRequests, c.reqID)
    /\ removed' = removed \cup {c.reqID}
    /\ Finish(c, "Expired")

LivePath(c) ==
    /\ Exists(c.reqID)
    /\ isRequestExpired(pendingRequests[c.reqID]) = "false"

\* Faulty variant of ApproveLive: approve flips the flag.
ApproveLive_Toggle(c) ==
    /\ LivePath(c)
    /\ pendingRequests' = [pendingRequests EXCEPT
                              ![c.reqID].Approved = ~pendingRequests[c.reqID].Approved]
    /\ Finish(c, "Approved")
    /\ UNCHANGED removed

\* Faulty variant of ApproveLive: approval restarts the lifetime of the entry.
ApproveLive_Renews(c) ==
    /\ LivePath(c)
    /\ pendingRequests' = [pendingRequests EXCEPT ![c.reqID].Approved = TRUE,
                                                  ![c.reqID].CreatedAt = now]
    /\ Finish(c, "Approved")
    /\ UNCHANGED removed

\* The entry is live and unexpired: approve sets Approved,
ApproveLive(c) ==
    /\ LivePath(c)
    /\ pendingRequests' = [pendingRequests EXCEPT ![c.reqID].Approved = TRUE]
    /\ Finish(c, "Approved")
    /\ UNCHANGED removed

\* Faulty variant of DenyLive: an Approved entry is not deleted.
DenyLive_PendingOnly(c) ==
    /\ LivePath(c)
    /\ IF pendingRequests[c.reqID].Approved
       THEN UNCHANGED <<pendingRequests, removed>>
       ELSE /\ pendingRequests' = Delete(pendingRequests, c.reqID)
            /\ removed' = removed \cup {c.reqID}
    /\ Finish(c, "Denied")

\* deny deletes the entry,
DenyLive(c) ==
    /\ LivePath(c)
    /\ pendingRequests' = Delete(pendingRequests, c.reqID)
    /\ removed' = removed \cup {c.reqID}
    /\ Finish(c, "Denied")

\* Faulty variant of GetKeyLive: the key is released once.
GetKeyLive_SingleUse(c) ==
    /\ LivePath(c)
    /\ Finish(c, IF pendingRequests[c.reqID].Approved THEN "Secret" ELSE "NotApproved")
    /\ IF pendingRequests[c.reqID].Approved
       THEN /\ pendingRequests' = Delete(pendingRequests, c.reqID)
            /\ removed' = removed \cup {c.reqID}
       ELSE UNCHANGED <<pendingRequests, removed>>

\* and get-key answers the key if Approved is set, 403 otherwise.
GetKeyLive(c) ==
    /\ LivePath(c)
    /\ Finish(c, IF pendingRequests[c.reqID].Approved THEN "Secret" ELSE "NotApproved")
    /\ UNCHANGED <<pendingRequests, removed>>

\* handleAdminApproveRequest up to mu.Lock(), behind requireAdminSecretKey
CallApprove(authHeader, reqID) ==
    /\ Running
    /\ InFlight < NumTasks
    /\ IF ~requireAdminSecretKey(authHeader)
       THEN Reject(Answer("approve", reqID, authHeader, "Unauthorized"))
       ELSE IF uuidParseErr(reqID)
       THEN Reject(Answer("approve", reqID, authHeader, "BadID"))
       ELSE Admit(Call("approve", reqID, "", "", authHeader))

\* handleAdminDenyRequest up to mu.Lock(), behind requireAdminSecretKey
CallDeny(authHeader, reqID) ==
    /\ Running
    /\ InFlight < NumTasks
    /\ IF ~requireAdminSecretKey(authHeader)
       THEN Reject(Answer("deny", reqID, authHeader, "Unauthorized"))
       ELSE IF uuidParseErr(reqID)
       THEN Reject(Answer("deny", reqID, authHeader, "BadID"))
       ELSE Admit(Call("deny", reqID, "", "", authHeader))

\* handleServerGetKey up to mu.Lock(), behind requireServerSecretKey.
\* bodyOk: ShouldBindJSON succeeded, and reqID is the req_id of the body.
CallGetKey(authHeader, bodyOk, reqID) ==
    /\ Running
    /\ InFlight < NumTasks
    /\ IF ~requireServerSecretKey(authHeader)
       THEN Reject(Answer("get-key", reqID, authHeader, "Unauthorized"))
       ELSE IF ~bodyOk
       THEN Reject(Answer("get-key", reqID, authHeader, "BadRequest"))
       ELSE IF uuidParseErr(reqID)
       THEN Reject(Answer("get-key", reqID, authHeader, "BadID"))
       ELSE Admit(Call("get-key", reqID, "", "", authHeader))

\* handleServerRequestKey up to mu.Lock(), behind requireServerSecretKey:
\* the id is generated before the lock is taken.
CallRequestKey(authHeader, bodyOk, serverID, ip) ==
    /\ Running
    /\ InFlight < NumTasks
    /\ IF ~requireServerSecretKey(authHeader)
       THEN Reject(Answer("request-key", NoID, authHeader, "Unauthorized"))
       ELSE IF ~bodyOk
       THEN Reject(Answer("request-key", NoID, authHeader, "BadRequest"))
       ELSE \E id \in NewUUIDs :
              /\ waiting' = waiting (+) One(Call("request-key", id, serverID, ip, authHeader))
              /\ issued' = issued \cup {id[2]}
              /\ last' = Nothing
              /\ UNCHANGED <<approvalTimeout, pendingRequests, mu, now, inside,
                             sweeperPc, crashed, removed>>

\* Faulty variant of Lock: the handler does not wait for the mutex.
Lock_NoMutex(c) ==
    /\ Running
    /\ BagIn(c, waiting)
    /\ mu' = "locked"
    /\ waiting' = waiting (-) One(c)
    /\ inside' = inside (+) One(c)
    /\ last' = Nothing
    /\ UNCHANGED <<approvalTimeout, pendingRequests, now, sweeperPc, issued,
                   crashed, removed>>

\* mu.Lock() of the handler of call c returns
Lock(c) ==
    /\ Running
    /\ BagIn(c, waiting)
    /\ mu = "unlocked"
    /\ mu' = "locked"
    /\ waiting' = waiting (-) One(c)
    /\ inside' = inside (+) One(c)
    /\ last' = Nothing
    /\ UNCHANGED <<approvalTimeout, pendingRequests, now, sweeperPc, issued,
                   crashed, removed>>

\* Faulty variant of ApproveBody: the age of the entry is not looked at.
ApproveBody_NoExpiryCheck(c) ==
    /\ Running
    /\ BagIn(c, inside)
    /\ c.op = "approve"
    /\ \/ NotFoundPath(c)
       \/ /\ Exists(c.reqID)
          /\ pendingRequests' = [pendingRequests EXCEPT ![c.reqID].Approved = TRUE]
          /\ Finish(c, "Approved")
          /\ UNCHANGED removed
    /\ UNCHANGED <<approvalTimeout, now, sweeperPc, issued, crashed>>

\* handleAdminApproveRequest from the lookup to the deferred unlock
ApproveBody(c) ==
    /\ Running
    /\ BagIn(c, inside)
    /\ c.op = "approve"
    /\ \/ NotFoundPath(c)
       \/ PanicPath(c)
       \/ ExpiredPath(c)
       \/ ApproveLive(c)
    /\ UNCHANGED <<approvalTimeout, now, sweeperPc, issued, crashed>>

\* handleAdminDenyRequest from the lookup to the deferred unlock
DenyBody(c) ==
    /\ Running
    /\ BagIn(c, inside)
    /\ c.op = "deny"
    /\ \/ NotFoundPath(c)
       \/ PanicPath(c)
       \/ ExpiredPath(c)
       \/ DenyLive(c)
    /\ UNCHANGED <<approvalTimeout, now, sweeperPc, issued, crashed>>

\* handleServerGetKey from the lookup to the deferred unlock
GetKeyBody(c) ==
    /\ Running
    /\ BagIn(c, inside)
    /\ c.op = "get-key"
    /\ \/ NotFoundPath(c)
       \/ PanicPath(c)
       \/ ExpiredPath(c)
       \/ GetKeyLive(c)
    /\ UNCHANGED <<approvalTimeout, now, sweeperPc, issued, crashed>>

\* handleServerRequestKey from the insertion to mu.Unlock() and the answer
RequestKeyBody(c) ==
    /\ Running
    /\ BagIn(c, inside)
    /\ c.op = "request-key"
    /\ pendingRequests' =
           Store(pendingRequests, c.reqID, Request(c.ServerID, now, c.IP))
    /\ Finish(c, "Accepted")
    /\ UNCHANGED <<approvalTimeout, now, sweeperPc, issued, crashed, removed>>

\* Faulty variant of SweepLock: the cleanup does not wait for the mutex.
SweepLock_NoMutex ==
    /\ Running
    /\ sweeperPc = "sleep"
    /\ mu' = "locked"
    /\ sweeperPc' = "cs"
    /\ last' = Nothing
    /\ UNCHANGED <<approvalTimeout, pendingRequests, now, waiting, inside, issued,
                   crashed, removed>>

\* The cleanup goroutine wakes up: mu.Lock() of cleanupExpiredRequests
SweepLock ==
    /\ Running
    /\ sweeperPc = "sleep"
    /\ mu = "unlocked"
    /\ mu' = "locked"
    /\ sweeperPc' = "cs"
    /\ last' = Nothing
    /\ UNCHANGED <<approvalTimeout, pendingRequests, now, waiting, inside, issued,
                   crashed, removed>>

\* Faulty variant of ExpiredIDs: the scan deletes nothing.
ExpiredIDs_None == {}

\* Faulty variant of ExpiredIDs: an entry whose age equals the timeout goes too.
ExpiredIDs_Inclusive ==
    {id \in DOMAIN pendingRequests :
        now - pendingRequests[id].CreatedAt >= ParseDuration(approvalTimeout).d}

\* The ids the scan of cleanupExpiredRequests deletes
ExpiredIDs == {id \in DOMAIN pendingRequests :
                   isRequestExpired(pendingRequests[id]) = "true"}

\* cleanupExpiredRequests from the scan to the deferred unlock.  With a
\* timeout that does not parse the first entry scanned panics, outside any
\* recovery: the process ends.
SweepBody ==
    /\ Running
    /\ sweeperPc = "cs"
    /\ mu' = "unlocked"
    /\ sweeperPc' = "sleep"
    /\ IF \E id \in DOMAIN pendingRequests :
              isRequestExpired(pendingRequests[id]) = "panic"
       THEN /\ crashed' = TRUE
            /\ last' = Nothing
            /\ UNCHANGED <<pendingRequests, removed>>
       ELSE /\ pendingRequests' =
                   [id \in DOMAIN pendingRequests \ ExpiredIDs |-> pendingRequests[id]]
            /\ removed' = removed \cup ExpiredIDs
            /\ last' = Answer("sweep", NoID, <<>>,
                              IF ExpiredIDs = {} THEN "Clean" ELSE "Purged")
            /\ UNCHANGED crashed
    /\ UNCHANGED <<approvalTimeout, now, waiting, inside, issued>>

\* A second passes.
Tick ==
    /\ Running
    /\ now < MaxTime
    /\ now' = now + 1
    /\ last' = Nothing
    /\ UNCHANGED <<approvalTimeout, pendingRequests, mu, waiting, inside, sweeperPc,
                   issued, crashed, removed>>

\* ----------------------------------------------------------- specification
InitWith(timeouts) ==
    /\ approvalTimeout \in timeouts
    /\ pendingRequests = <<>>
    /\ mu = "unlocked"
    /\ now = 0
    /\ waiting = EmptyBag
    /\ inside = EmptyBag
    /\ sweeperPc = "sleep"
    /\ issued = {}
    /\ crashed = FALSE
    /\ removed = {}
    /\ last = Nothing

\* The service as deployed: APPROVAL_TIMEOUT holds a duration.
Init == InitWith(ParseableTimeouts)

\* The service started with any value of APPROVAL_TIMEOUT.
InitAnyConfig == InitWith(ParseableTimeouts \cup MalformedTimeouts)

\* One of the handlers blocked in mu.Lock() gets the mutex.
HandlerLock == \E c \in BagToSet(waiting) : Lock(c)

\* The handler inside the critical section runs it to its end.
Approve == \E c \in BagToSet(inside) : ApproveBody(c)

Deny == \E c \in BagToSet(inside) : DenyBody(c)

GetKey == \E c \in BagToSet(inside) : GetKeyBody(c)

RequestKey == \E c \in BagToSet(inside) : RequestKeyBody(c)

Next ==
    \/ \E a \in AuthHeaders, id \in ReqIDs : CallApprove(a, id)
    \/ \E a \in AuthHeaders, id \in ReqIDs : CallDeny(a, id)
    \/ \E a \in AuthHeaders, id \in ReqIDs : CallGetKey(a, TRUE, id)
    \/ \E a \in AuthHeaders : CallGetKey(a, FALSE, NoID)
    \/ \E a \in AuthHeaders, b \in BOOLEAN, s \in ServerIDs, ip \in ClientIPs :
           CallRequestKey(a, b, s, ip)
    \/ HandlerLock
    \/ Approve
    \/ Deny
    \/ GetKey
    \/ RequestKey
    \/ SweepLock
    \/ SweepBody
    \/ Tick

Spec == Init /\ [][Next]_vars

SpecAnyConfig == InitAnyConfig /\ [][Next]_vars

\* The service with its scheduling.  The clients are the ones that pass the
\* gate and the validation of the id: a rejected call changes nothing but
\* its own answer.  The clock advances; a handler that holds the mutex runs
\* its critical section to the end; the cleanup goroutine wakes up every
\* minute, gets the mutex although handlers keep taking it (sync.Mutex hands
\* the lock to a goroutine that has waited too long), and runs to its end.
\* Nothing obliges a client to call.
FairNext ==
    \/ \E id \in {Canonical(n) : n \in 1..NumUUIDs} :
           \/ CallApprove(Bearer \o adminSecretKey, id)
           \/ CallDeny(Bearer \o adminSecretKey, id)
           \/ CallGetKey(Bearer \o serverSecretKey, TRUE, id)
    \/ \E s \in ServerIDs, ip \in ClientIPs :
           CallRequestKey(Bearer \o serverSecretKey, TRUE, s, ip)
    \/ HandlerLock
    \/ Approve
    \/ Deny
    \/ GetKey
    \/ RequestKey
    \/ SweepLock
    \/ SweepBody
    \/ Tick

FairSpec ==
    /\ Init
    /\ [][FairNext]_vars
    /\ WF_vars(Tick)
    /\ WF_vars(Approve)
    /\ WF_vars(Deny)
    /\ WF_vars(GetKey)
    /\ WF_vars(RequestKey)
    /\ SF_vars(SweepLock)
    /\ WF_vars(SweepBody)

\* ------------------------------------------------------ the expiry scenario
\* The client of TestRequestExpiration, against the running service: it
\* creates requests, leaves each one alone until its age exceeds the timeout,
\* then calls approve on it and, with the answer in hand, get-key.  The
\* cleanup goroutine runs as it does in Spec.
ScenarioCreate ==
    \E s \in ServerIDs, ip \in ClientIPs :
        CallRequestKey(Bearer \o serverSecretKey, TRUE, s, ip)

ScenarioApprove ==
    \E id \in DOMAIN pendingRequests :
        /\ Since(pendingRequests[id].CreatedAt) > ParseDuration(approvalTimeout).d
        /\ \A c \in BagToSet(waiting) \cup BagToSet(inside) : c.reqID # id
        /\ CallApprove(Bearer \o adminSecretKey, id)

ScenarioGetKey ==
    /\ last.op = "approve"
    /\ last.code \in {"Expired", "NotFound", "Approved"}
    /\ CallGetKey(Bearer \o serverSecretKey, TRUE, last.reqID)

ScenarioNext ==
    \/ ScenarioCreate
    \/ ScenarioApprove
    \/ ScenarioGetKey
    \/ HandlerLock
    \/ Approve
    \/ GetKey
    \/ RequestKey
    \/ SweepLock
    \/ SweepBody
    \/ Tick

SpecScenario == Init /\ [][ScenarioNext]_vars

\* =============================================================== properties
\* The vocabulary of the properties, stated on the state alone.
Timeout == ParseDuration(approvalTimeout).d

Live(id) == id \in DOMAIN pendingRequests

Age(id) == now - pendingRequests[id].CreatedAt

Aged(id) == Live(id) /\ Age(id) > Timeout

Unexpired(id) == Live(id) /\ Age(id) <= Timeout

WellFormed(id) == id \in {<<"canonical", n>> : n \in 1..NumUUIDs}

Handlers == BagToSet(waiting) \cup BagToSet(inside)

IdRoutes == {"approve", "deny", "get-key"}

\* The credential the gate of a route expects
Expected(op) ==
    IF op \in {"approve", "deny"} THEN <<"B", " ", "a", "d", "m">>
    ELSE <<"B", " ", "s", "r", "v">>

\* This step is the one in which the handler of call c answers from inside
\* its critical section.
Returns(c) == BagIn(c, inside) /\ CopiesIn(c, inside') < CopiesIn(c, inside)

\* ----------------------------------------------------------------------- C1
\* C1, as stated: get-key answers the key only if, when it runs, the id is
\* live, Approved and its age does not exceed the timeout; and for every live
\* Pending entry it answers NotApproved.
C1_AsStated ==
    [][\A c \in BagToSet(inside) : (c.op = "get-key" /\ Returns(c)) =>
          /\ last'.code = "Secret" =>
                 (Unexpired(c.reqID) /\ pendingRequests[c.reqID].Approved)
          /\ (Live(c.reqID) /\ ~pendingRequests[c.reqID].Approved) =>
                 last'.code = "NotApproved"]_vars

\* C1, amended: get-key answers the key only if, when it runs, the id is
\* live, Approved and its age does not exceed the timeout; for a live Pending
\* entry it answers NotApproved while the age does not exceed the timeout and
\* Expired once it does, never the key.
C1_SecretOnlyIfApprovedUnexpired ==
    [][\A c \in BagToSet(inside) : (c.op = "get-key" /\ Returns(c)) =>
          /\ last'.code = "Secret" =>
                 (Unexpired(c.reqID) /\ pendingRequests[c.reqID].Approved)
          /\ (Live(c.reqID) /\ ~pendingRequests[c.reqID].Approved) =>
                 last'.code = IF Age(c.reqID) > Timeout THEN "Expired"
                              ELSE "NotApproved"]_vars

\* The key was released for an entry that is Approved and at the very end of
\* its lifetime.
C1_Witness ==
    /\ last.op = "get-key"
    /\ last.code = "Secret"
    /\ Live(last.reqID)
    /\ Age(last.reqID) = Timeout

C3_ExpiredThenNotFound ==
    [][\A c \in BagToSet(inside) : (c.op \in IdRoutes /\ Returns(c)) =>
          /\ Aged(c.reqID) =>
                 /\ last'.code = "Expired"
                 /\ c.reqID \notin DOMAIN pendingRequests'
          /\ c.reqID \in removed =>
                 /\ last'.code = "NotFound"
                 /\ pendingRequests' = pendingRequests]_vars

\* A call was answered Expired and the entry is gone.
C3_Witness ==
    /\ last.code = "Expired"
    /\ last.reqID \in removed
    /\ ~Live(last.reqID)

\* ----------------------------------------------------------------------- C4
\* C4: deny on a live entry whose age does not exceed the timeout answers
\* Denied and deletes the entry, Pending or Approved; afterwards approve,
\* get-key and a second deny on that id answer NotFound.
C4_DenyTerminal ==
    [][\A c \in BagToSet(inside) : (c.op \in IdRoutes /\ Returns(c)) =>
          /\ (c.op = "deny" /\ Unexpired(c.reqID)) =>
                 /\ last'.code = "Denied"
                 /\ c.reqID \notin DOMAIN pendingRequests'
                 /\ c.reqID \in removed'
          /\ (c.reqID \in removed /\ c.reqID \notin DOMAIN pendingRequests) =>
                 last'.code = "NotFound"]_vars

\* deny was answered Denied and the entry is gone.
C4_Witness ==
    /\ last.op = "deny"
    /\ last.code = "Denied"
    /\ last.reqID \in removed
    /\ ~Live(last.reqID)

\* ----------------------------------------------------------------------- C5
\* C5: get-key on an entry that is Approved and whose age does not exceed
\* the timeout answers the key and leaves the map exactly as it was, so the
\* next get-key finds the same entry.
C5_RetrieveDoesNotConsume ==
    [][\A c \in BagToSet(inside) :
          (/\ c.op = "get-key"
           /\ Returns(c)
           /\ Unexpired(c.reqID)
           /\ pendingRequests[c.reqID].Approved) =>
              /\ last'.code = "Secret"
              /\ pendingRequests' = pendingRequests]_vars

\* The key was released while another get-key for the same id is in flight:
\* the entry is still there, Approved.
C5_Witness ==
    /\ last.op = "get-key"
    /\ last.code = "Secret"
    /\ Live(last.reqID)
    /\ pendingRequests[last.reqID].Approved
    /\ \E c \in Handlers : c.op = "get-key" /\ c.reqID = last.reqID

\* ----------------------------------------------------------------------- C6
InCriticalSection == BagCardinality(inside) + (IF sweeperPc = "cs" THEN 1 ELSE 0)

\* C6, as stated: of an approve and a deny made on a live, unexpired id and
\* in flight together, exactly one wins: the one that runs second, the entry
\* not having expired, answers NotFound.
C6_AsStated ==
    [][\A c \in BagToSet(inside) :
          (/\ c.op \in {"approve", "deny"}
           /\ Returns(c)
           /\ c.atLive
           /\ c.rival \in {"Approved", "Denied"}
           /\ ~Aged(c.reqID)) =>
              last'.code = "NotFound"]_vars

\* C6, amended: an approve and a deny in flight together on the same id run
\* one after the other, never both inside the critical section.  If the deny
\* ran first and answered Denied, the approve answers NotFound.  If the
\* approve ran first and answered Approved, the deny, run while the entry is
\* unexpired, answers Denied and deletes the Approved entry: both calls
\* succeed.
C6_Serialized ==
    /\ [](InCriticalSection <= 1)
    /\ [][\A c \in BagToSet(inside) : (c.op \in {"approve", "deny"} /\ Returns(c)) =>
            /\ c.rival = "Denied" =>
                   /\ c.op = "approve"
                   /\ last'.code = "NotFound"
                   /\ pendingRequests' = pendingRequests
            /\ (c.rival = "Approved" /\ Unexpired(c.reqID)) =>
                   /\ c.op = "deny"
                   /\ pendingRequests[c.reqID].Approved
                   /\ last'.code = "Denied"
                   /\ c.reqID \notin DOMAIN pendingRequests']_vars

\* A deny made on a live, unexpired id holds the lock on the entry, still
\* unexpired, that an approve in flight together with it has set to Approved.
C6_Witness ==
    \E c \in BagToSet(inside) :
        /\ c.op = "deny"
        /\ c.atLive
        /\ c.rival = "Approved"
        /\ Unexpired(c.reqID)

\* ----------------------------------------------------------------------- C7
\* C7: approve, deny and get-key, called with the expected credential and an
\* id that is not well formed, answer BadID, and that answer leaves the map
\* and the mutex as they were: no handler with such an id ever waits for
\* the lock or holds it.
C7_BadIDBeforeLock ==
    /\ [](\A c \in Handlers : WellFormed(c.reqID))
    /\ [][(/\ last'.op \in IdRoutes
           /\ last'.auth = Expected(last'.op)
           /\ last'.code # "BadRequest"
           /\ ~WellFormed(last'.reqID)) =>
              /\ last'.code = "BadID"
              /\ UNCHANGED <<pendingRequests, mu, waiting, inside, issued, removed>>]_vars

\* get-key was answered BadID while the map holds an entry.
C7_Witness ==
    /\ last.op = "get-key"
    /\ last.code = "BadID"
    /\ ~WellFormed(last.reqID)
    /\ pendingRequests # <<>>

\* ----------------------------------------------------------------------- C8
\* An id request-key has not returned: never generated, or generated by a
\* request-key that is still in flight.
NeverReturned(id) ==
    \/ id[2] \notin issued
    \/ \E c \in Handlers : c.op = "request-key" /\ c.reqID = id

\* C8: approve, deny and get-key on a well-formed id that request-key has
\* not returned answer NotFound and leave the map as it was.
C8_UnknownIdNotFound ==
    [][\A c \in BagToSet(inside) :
          (/\ c.op \in IdRoutes
           /\ Returns(c)
           /\ WellFormed(c.reqID)
           /\ NeverReturned(c.reqID)) =>
              /\ last'.code = "NotFound"
              /\ pendingRequests' = pendingRequests]_vars

\* deny was answered NotFound for an id never generated, while the map
\* holds an entry.
C8_Witness ==
    /\ last.op = "deny"
    /\ last.code = "NotFound"
    /\ last.reqID[2] \notin issued
    /\ pendingRequests # <<>>

\* ----------------------------------------------------------------------- C9
\* C9: a request-key that reaches the map answers Accepted with a well-formed
\* id and stores under it an entry that is Pending, created now, with the
\* caller's label and address; a get-key that runs while that entry is still
\* Pending and no time has passed answers NotApproved.
C9_CreatePending ==
    [][\A c \in BagToSet(inside) : Returns(c) =>
          /\ c.op = "request-key" =>
                 /\ last'.code = "Accepted"
                 /\ last'.reqID = c.reqID
                 /\ WellFormed(c.reqID)
                 /\ c.reqID \in DOMAIN pendingRequests'
                 /\ pendingRequests'[c.reqID] =
                        [ServerID |-> c.ServerID, Approved |-> FALSE,
                         CreatedAt |-> now, IP |-> c.IP]
          /\ (/\ c.op = "get-key"
              /\ Live(c.reqID)
              /\ ~pendingRequests[c.reqID].Approved
              /\ pendingRequests[c.reqID].CreatedAt = now) =>
                 last'.code = "NotApproved"]_vars

\* get-key was answered NotApproved for an entry created at this very time.
C9_Witness ==
    /\ last.op = "get-key"
    /\ last.code = "NotApproved"
    /\ Live(last.reqID)
    /\ pendingRequests[last.reqID].CreatedAt = now

\* ---------------------------------------------------------------------- C10
\* C10: a run of the cleanup deletes exactly the entries whose age exceeds
\* the timeout and leaves every other entry as it was.
C10_SweepExact ==
    [][(sweeperPc = "cs" /\ sweeperPc' = "sleep") =>
          pendingRequests' =
              [id \in {i \in DOMAIN pendingRequests : Age(i) <= Timeout} |->
                  pendingRequests[id]]]_vars

\* The cleanup has just deleted an entry and left another one.
C10_Witness ==
    /\ last.op = "sweep"
    /\ last.code = "Purged"
    /\ pendingRequests # <<>>

\* ---------------------------------------------------------------------- C11
\* C11, as stated: in the scenario, with the cleanup running on its own, the
\* approve called once the age of the entry exceeds the timeout answers
\* Expired, and the get-key that follows answers NotFound.
C11_AsStated ==
    [][\A c \in BagToSet(inside) : Returns(c) =>
          /\ c.op = "approve" => last'.code = "Expired"
          /\ c.op = "get-key" => last'.code = "NotFound"]_vars

\* C11, amended: in the scenario the approve answers Expired, deleting the
\* entry, if the entry is still in the map when the approve runs, and
\* NotFound if the cleanup has deleted it in the meantime; either way the
\* entry is gone and the get-key that follows answers NotFound.
C11_ExpiredUnlessSwept ==
    [][\A c \in BagToSet(inside) : Returns(c) =>
          /\ c.op = "approve" =>
                 /\ Live(c.reqID) => Age(c.reqID) > Timeout
                 /\ last'.code = IF Live(c.reqID) THEN "Expired" ELSE "NotFound"
                 /\ ~Live(c.reqID) => c.reqID \in removed
                 /\ c.reqID \notin DOMAIN pendingRequests'
          /\ c.op = "get-key" =>
                 /\ last'.code = "NotFound"
                 /\ pendingRequests' = pendingRequests]_vars

\* The get-key of the scenario was answered NotFound while a younger entry
\* is in the map.
C11_Witness ==
    /\ last.op = "get-key"
    /\ last.code = "NotFound"
    /\ last.reqID \in removed
    /\ \E id \in DOMAIN pendingRequests : Age(id) <= Timeout

\* ---------------------------------------------------------------------- C12
BadConfig == ParseDuration(approvalTimeout).err

\* C12, as stated: when the configured timeout does not parse, the service
\* does not get as far as executing an operation on the map: no create,
\* approve, deny, get-key or cleanup runs its critical section, no call is
\* answered with a server fault and the process does not die at request time.
C12_AsStated ==
    BadConfig =>
        /\ last.op \in {"request-key", "approve", "deny", "get-key", "sweep"}
               => last.code \in {"Unauthorized", "BadRequest", "BadID"}
        /\ last.code # "InternalError"
        /\ ~crashed

\* The timeout does not parse, an entry was created nonetheless, and the
\* cleanup that met it ended the process.
C12_Witness ==
    /\ BadConfig
    /\ crashed
    /\ pendingRequests # <<>>

\* ---------------------------------------------------------------------- C13
\* C13: under the scheduling of FairSpec, an entry whose age exceeds the
\* timeout is eventually deleted, whether or not a client ever calls on it
\* again; and no entry stays unexpired forever while the clock can advance:
\* it is deleted or its age comes to exceed the timeout.
C13_EventuallyRemoved ==
    \A id \in {<<"canonical", n>> : n \in 1..NumUUIDs} :
        /\ Aged(id) ~> ~Live(id)
        /\ Live(id) ~> (~Live(id) \/ Aged(id) \/ now = MaxTime)

\* The cleanup has just deleted the last entry of the map while no call is
\* in flight.
C13_Witness ==
    /\ last.op = "sweep"
    /\ last.code = "Purged"
    /\ removed # {}
    /\ pendingRequests = <<>>
    /\ waiting = EmptyBag
    /\ inside = EmptyBag

\* ---------------------------------------------------------------------- C14
\* The key of the gate in front of a route
GateKey(op) == IF op \in {"approve", "deny"} THEN adminSecretKey ELSE serverSecretKey

\* C14, as stated: the gate does the same amount of work for any two
\* credentials it rejects: whenever a call is rejected for the header it
\* presented, the comparison went over as many bytes as it goes over for any
\* other header the gate of that route rejects, of the same length or not.
C14_AsStated ==
    (last.code = "Unauthorized" /\ last.auth # <<>>) =>
        \A h \in AuthHeaders \ {<<>>} :
            ~(ConstantTimeCompare(h, Bearer \o GateKey(last.op)) = 1) =>
                requireSecretKeyWork(h, GateKey(last.op))
                    = requireSecretKeyWork(last.auth, GateKey(last.op))

\* A call was rejected for a header that is shorter than the expected one.
C14_Witness ==
    /\ last.code = "Unauthorized"
    /\ last.auth # <<>>
    /\ Len(last.auth) < Len(Expected(last.op))

\* ---------------------------------------------------------------------- C15
\* C15: no step turns an Approved entry back to Pending: an entry that is
\* Approved and still in the map after a step is still Approved; and approve
\* on an entry that is already Approved and whose age does not exceed the
\* timeout answers Approved and leaves the map exactly as it was.
C15_PendingToApprovedOnly ==
    [][/\ \A id \in DOMAIN pendingRequests \cap DOMAIN pendingRequests' :
              pendingRequests[id].Approved => pendingRequests'[id].Approved
       /\ \A c \in BagToSet(inside) :
              (/\ c.op = "approve"
               /\ Returns(c)
               /\ Unexpired(c.reqID)
               /\ pendingRequests[c.reqID].Approved) =>
                  /\ last'.code = "Approved"
                  /\ pendingRequests' = pendingRequests]_vars

\* An approve holds the lock on an entry that an earlier approve has set to
\* Approved and that has not expired.
C15_Witness ==
    \E c \in BagToSet(inside) :
        /\ c.op = "approve"
        /\ Unexpired(c.reqID)
        /\ pendingRequests[c.reqID].Approved

\* ---------------------------------------------------------------------- C16
\* C16: no step changes the CreatedAt of an entry that stays in the map,
\* whatever the step (approve, get-key, cleanup, the create of another
\* entry); so an Approved entry stops yielding the key once its age exceeds
\* the timeout: get-key on it answers Expired and deletes it.
C16_CreatedAtFixed ==
    [][/\ \A id \in DOMAIN pendingRequests \cap DOMAIN pendingRequests' :
              pendingRequests'[id].CreatedAt = pendingRequests[id].CreatedAt
       /\ \A c \in BagToSet(inside) :
              (/\ c.op = "get-key"
               /\ Returns(c)
               /\ Live(c.reqID)
               /\ pendingRequests[c.reqID].Approved
               /\ Age(c.reqID) > Timeout) =>
                  /\ last'.code = "Expired"
                  /\ c.reqID \notin DOMAIN pendingRequests']_vars

\* A get-key holds the lock on an Approved entry whose age exceeds the
\* timeout.
C16_Witness ==
    \E c \in BagToSet(inside) :
        /\ c.op = "get-key"
        /\ Aged(c.reqID)
        /\ pendingRequests[c.reqID].Approved

\* ---------------------------------------------------------------------- C17
\* C17: an id whose entry was deleted (every id that leaves the map is
\* recorded, and stays recorded) is never in the map again, and every later
\* approve, deny and get-key on it answers NotFound and changes nothing.
C17_RemovedForGood ==
    /\ [](removed \cap DOMAIN pendingRequests = {})
    /\ [][/\ removed \subseteq removed'
          /\ (DOMAIN pendingRequests \ DOMAIN pendingRequests') \subseteq removed'
          /\ \A c \in BagToSet(inside) :
                 (c.op \in IdRoutes /\ Returns(c) /\ c.reqID \in removed) =>
                     /\ last'.code = "NotFound"
                     /\ pendingRequests' = pendingRequests
                     /\ removed' = removed]_vars

\* approve was answered NotFound for an id whose entry was deleted, while
\* an entry created since is in the map.
C17_Witness ==
    /\ last.op = "approve"
    /\ last.code = "NotFound"
    /\ last.reqID \in removed
    /\ pendingRequests # <<>>

\* ---------------------------------------------------------------------- C18
\* C18: the id of a request-key in flight is the id of no entry, live or
\* deleted, and of no other request-key in flight; the insertion adds that
\* one id to the map, so the number of entries grows by exactly one, and
\* leaves every entry that was there as it was.
C18_CreateNeverCollides ==
    /\ [](\A c \in Handlers : c.op = "request-key" =>
             /\ ~Live(c.reqID)
             /\ c.reqID \notin removed
             /\ CopiesIn(c, waiting) + CopiesIn(c, inside) = 1
             /\ \A d \in Handlers \ {c} : d.op = "request-key" => d.reqID # c.reqID)
    /\ [][\A c \in BagToSet(inside) : (c.op = "request-key" /\ Returns(c)) =>
             /\ DOMAIN pendingRequests' = DOMAIN pendingRequests \cup {c.reqID}
             /\ Cardinality(DOMAIN pendingRequests')
                    = Cardinality(DOMAIN pendingRequests) + 1
             /\ \A id \in DOMAIN pendingRequests :
                    pendingRequests'[id] = pendingRequests[id]]_vars

\* A request-key was answered, its entry is in the map, and another
\* request-key, with another id, is in flight.
C18_Witness ==
    /\ last.op = "request-key"
    /\ last.code = "Accepted"
    /\ Live(last.reqID)
    /\ \E c \in Handlers : c.op = "request-key" /\ c.reqID # last.reqID

\* ---------------------------------------------------------------------- C19
\* C19: approve, deny and get-key answer Expired exactly when the entry
\* exists and its age is strictly greater than the timeout, Pending or
\* Approved.  On an entry whose age equals the timeout approve answers
\* Approved and keeps the entry, get-key answers the key if the entry is
\* Approved, and the cleanup leaves the entry as it is.
C19_StrictExpiry ==
    [][/\ \A c \in BagToSet(inside) : (c.op \in IdRoutes /\ Returns(c)) =>
              /\ (last'.code = "Expired") <=> (Live(c.reqID) /\ Age(c.reqID) > Timeout)
              /\ (Live(c.reqID) /\ Age(c.reqID) = Timeout) =>
                     /\ c.op = "approve" =>
                            /\ last'.code = "Approved"
                            /\ c.reqID \in DOMAIN pendingRequests'
                     /\ (c.op = "get-key" /\ pendingRequests[c.reqID].Approved) =>
                            last'.code = "Secret"
       /\ (sweeperPc = "cs" /\ sweeperPc' = "sleep") =>
              \A id \in DOMAIN pendingRequests : Age(id) = Timeout =>
                  /\ id \in DOMAIN pendingRequests'
                  /\ pendingRequests'[id] = pendingRequests[id]]_vars

\* approve was answered Approved for an entry whose age equals the timeout.
C19_Witness ==
    /\ last.op = "approve"
    /\ last.code = "Approved"
    /\ Live(last.reqID)
    /\ Age(last.reqID) = Timeout

\* ---------------------------------------------------------------------- C20
\* C20: at most one of the handlers and the cleanup is inside its critical
\* section, and the mutex is held exactly then; the map changes only in the
\* step that ends a critical section; every entry of the map is complete;
\* and a get-key answers from the map as it was when it took its turn: the
\* key, NotApproved or Expired for an entry that is there, NotFound for one
\* that is not.
C20_OneCriticalSection ==
    /\ [](/\ InCriticalSection <= 1
          /\ (mu = "locked") <=> (InCriticalSection = 1)
          /\ \A id \in DOMAIN pendingRequests :
                 /\ DOMAIN pendingRequests[id] = {"ServerID", "Approved", "CreatedAt", "IP"}
                 /\ pendingRequests[id].Approved \in BOOLEAN
                 /\ pendingRequests[id].CreatedAt \in 0..now)
    /\ [][/\ pendingRequests' # pendingRequests =>
                 (InCriticalSection = 1 /\ InCriticalSection' = 0)
          /\ \A c \in BagToSet(inside) : (c.op = "get-key" /\ Returns(c)) =>
                 IF Live(c.reqID)
                 THEN last'.code = IF Age(c.reqID) > Timeout THEN "Expired"
                                   ELSE IF pendingRequests[c.reqID].Approved
                                        THEN "Secret" ELSE "NotApproved"
                 ELSE last'.code = "NotFound"]_vars

\* The cleanup is inside its critical section while a get-key on an entry
\* whose age exceeds the timeout waits for the mutex.
C20_Witness ==
    /\ sweeperPc = "cs"
    /\ \E c \in BagToSet(waiting) : c.op = "get-key" /\ Aged(c.reqID)

\* ---------------------------------------------------------------------- C21
\* The ids of the Approved entries of a map
ApprovedIn(m) == {id \in DOMAIN m : m[id].Approved}

\* C21: the two keys differ, and then the set of Approved entries grows only
\* in the step in which an approve that carried the approver's credential
\* answers Approved, and by the id of that call alone: no step of a call made
\* with the requester's credential or with none (a create, a get-key, a call
\* on an approver's route), no cleanup and no other step approves an entry;
\* and get-key answers the key only for an entry that is Approved.
C21_ApprovedOnlyByApprover ==
    /\ [](adminSecretKey # serverSecretKey /\ Expected("approve") # Expected("get-key"))
    /\ [][/\ ApprovedIn(pendingRequests') \subseteq ApprovedIn(pendingRequests) \cup {last'.reqID}
          /\ ~(ApprovedIn(pendingRequests') \subseteq ApprovedIn(pendingRequests)) =>
                 /\ last'.op = "approve"
                 /\ last'.auth = <<"B", " ", "a", "d", "m">>
                 /\ last'.code = "Approved"
          /\ (last'.op \in {"request-key", "get-key", "sweep"}
                  \/ last'.auth # <<"B", " ", "a", "d", "m">>) =>
                 ApprovedIn(pendingRequests') \subseteq ApprovedIn(pendingRequests)
          /\ last'.code = "Secret" =>
                 /\ last'.op = "get-key"
                 /\ last'.reqID \in ApprovedIn(pendingRequests)]_vars

\* An approve made with the requester's credential was rejected and the
\* entry it named is still Pending.
C21_Witness ==
    /\ last.op = "approve"
    /\ last.auth = <<"B", " ", "s", "r", "v">>
    /\ last.code = "Unauthorized"
    /\ Live(last.reqID)
    /\ last.reqID \notin ApprovedIn(pendingRequests)

\* ---------------------------------------------------------------------- C22
\* C22: the step in which approve, deny or get-key answers from its critical
\* section adds no entry and leaves every entry but the one under its id
\* exactly as it was: flag, creation time, label and address; the step in
\* which request-key answers keeps every entry there was and adds the one
\* under its id; none of them touches the clock or the configuration.
C22_Frame ==
    [][\A c \in BagToSet(inside) : Returns(c) =>
          /\ UNCHANGED <<now, approvalTimeout>>
          /\ c.op \in IdRoutes =>
                 /\ DOMAIN pendingRequests' \subseteq DOMAIN pendingRequests
                 /\ \A id \in DOMAIN pendingRequests \ {c.reqID} :
                        /\ id \in DOMAIN pendingRequests'
                        /\ pendingRequests'[id] = pendingRequests[id]
          /\ c.op = "request-key" =>
                 /\ DOMAIN pendingRequests' \ {c.reqID} = DOMAIN pendingRequests \ {c.reqID}
                 /\ \A id \in DOMAIN pendingRequests \ {c.reqID} :
                        pendingRequests'[id] = pendingRequests[id]]_vars

\* deny deleted an entry and the other entry, an Approved one, is still in
\* the map.
C22_Witness ==
    /\ last.op = "deny"
    /\ last.code = "Denied"
    /\ \E id \in DOMAIN pendingRequests : id # last.reqID /\ pendingRequests[id].Approved

\* ---------------------------------------------------------------------- C23
\* C23, as stated: on every way out of a critical section the mutex is
\* released, whatever the configured timeout: the mutex is held exactly
\* while a handler or the cleanup is inside its critical section, a handler
\* whose timeout parse panicked has answered with the mutex free; and an
\* operation that waits for the mutex or holds it is never stuck: the one
\* that holds the mutex can run to its end, and when the mutex is free a
\* waiting handler can take it.
C23_AsStated ==
    /\ (mu = "locked") <=> (InCriticalSection = 1)
    /\ last.code = "InternalError" => mu = "unlocked"
    /\ inside # EmptyBag => ENABLED (Approve \/ Deny \/ GetKey \/ RequestKey)
    /\ sweeperPc = "cs" => ENABLED SweepBody
    /\ (waiting # EmptyBag /\ mu = "unlocked") => ENABLED HandlerLock

\* The cleanup's panic has ended the process, the mutex released by the
\* deferred unlock, while a handler was waiting for it.
C23_Witness ==
    /\ crashed
    /\ mu = "unlocked"
    /\ waiting # EmptyBag

====
